---- MODULE Spec2Model ----
(***************************************************************************)
(* wgpu_memory: a free-list allocator over a CPU mirror of a GPU buffer    *)
(* (SimpleGpuMemory, src/src/simple.rs) and the decorator that frees an    *)
(* allocation when its index is dropped (AutoDropping, src/src/auto_drop.rs)*)
(***************************************************************************)
EXTENDS Integers, Sequences, FiniteSets, TLC

\* size_of::<Entity>(), the element type of the test suite (one u32)
ElemSize == 4

\* bounds of the model
MaxSteps == 5       \* calls made on the memory in one run
MaxCount == 2       \* counts passed to allocate / resize
MaxOwners == 2      \* AutoDroppingAddressId values alive at once

VARIABLES
    data,              \* Vec<u8>: CPU mirror
    available_ranges,  \* Vec<AddressRange>: free list
    used_ranges,       \* SlotMap<AddressId, AddressRange>
    allocated_count,   \* usize
    mutated,           \* bool
    buffer,            \* content of the wgpu::Buffer
    status,            \* "ok", or "panicked" once an operation has panicked
    last,              \* the last call made: operation, handle, argument, transport write
    steps,             \* number of calls made so far
    owners,            \* the AutoDroppingAddressId values alive (decorator)
    parent_alive,      \* the Arc<RwLock<M>> of the decorator still exists
    store_op,          \* the call on the decorator that holds the write guard, if any
    dropping           \* the owners inside drop(), past the upgrade of parent

vars == <<data, available_ranges, used_ranges, allocated_count, mutated,
          buffer, status, last, steps, owners, parent_alive, store_op, dropping>>

memvars == <<data, available_ranges, used_ranges, allocated_count, mutated>>

----------------------------------------------------------------------------
\* Range<usize>

Range(s, e) == [start |-> s, end |-> e]

\* ExactSizeIterator::len of a Range: 0 when start >= end
RangeLen(r) == IF r.start < r.end THEN r.end - r.start ELSE 0

Min2(a, b) == IF a <= b THEN a ELSE b

Max2(a, b) == IF a >= b THEN a ELSE b

\* Vec::remove(i), 1-based
RemoveAt(s, i) == SubSeq(s, 1, i - 1) \o SubSeq(s, i + 1, Len(s))

\* Vec::insert(i, x), 1-based
InsertAt(s, i, x) == SubSeq(s, 1, i - 1) \o <<x>> \o SubSeq(s, i, Len(s))

Zeros(n) == [i \in 1..n |-> 0]

RECURSIVE Pow256(_)
Pow256(n) == IF n = 0 THEN 1 ELSE 256 * Pow256(n - 1)

\* bytemuck::cast_slice_mut: one element is ElemSize little-endian bytes
Encode(v) == [i \in 1..ElemSize |-> (v \div Pow256(i - 1)) % 256]

----------------------------------------------------------------------------
\* SlotMap<DefaultKey, AddressRange>: slots carry a version, odd when occupied;
\* vacant slots form a LIFO stack (free_head / next_free)

Key(i, v) == [idx |-> i, version |-> v]

NullKey == Key(0, 0)

NoRange == Range(0, 0)

SlotMapNew == [slots |-> <<>>, free |-> <<>>]

SlotMapContains(sm, key) ==
    /\ key.idx \in 1..Len(sm.slots)
    /\ sm.slots[key.idx].version = key.version
    /\ key.version % 2 = 1

SlotMapGet(sm, key) == sm.slots[key.idx].range

\* version | 1
OccupiedVersion(v) == IF v % 2 = 0 THEN v + 1 ELSE v

\* insert as it would be over a table of plain indices: a reused slot gives back
\* the key its previous occupant had
SlotMapInsert_plain_index(sm, range) ==
    IF sm.free # <<>>
    THEN LET i == Head(sm.free)
             v == sm.slots[i].version - 1
         IN  [sm  |-> [slots |-> [sm.slots EXCEPT ![i] = [version |-> v, range |-> range]],
                       free  |-> Tail(sm.free)],
              key |-> Key(i, v)]
    ELSE [sm  |-> [slots |-> Append(sm.slots, [version |-> 1, range |-> range]),
                   free  |-> <<>>],
          key |-> Key(Len(sm.slots) + 1, 1)]

SlotMapInsert(sm, range) ==
    IF sm.free # <<>>
    THEN LET i == Head(sm.free)
             v == OccupiedVersion(sm.slots[i].version)
         IN  [sm  |-> [slots |-> [sm.slots EXCEPT ![i] = [version |-> v, range |-> range]],
                       free  |-> Tail(sm.free)],
              key |-> Key(i, v)]
    ELSE [sm  |-> [slots |-> Append(sm.slots, [version |-> 1, range |-> range]),
                   free  |-> <<>>],
          key |-> Key(Len(sm.slots) + 1, 1)]

SlotMapRemove(sm, key) ==
    [slots |-> [sm.slots EXCEPT ![key.idx] =
                    [version |-> key.version + 1, range |-> NoRange]],
     free  |-> <<key.idx>> \o sm.free]

SlotMapSet(sm, key, range) ==
    [sm EXCEPT !.slots[key.idx].range = range]

\* indices of the occupied slots, in iteration order
Occupied(sm) == {i \in 1..Len(sm.slots) : sm.slots[i].version % 2 = 1}

LiveKeys(sm) == {Key(i, sm.slots[i].version) : i \in Occupied(sm)}

\* every key the map has ever returned
IssuedKeys(sm) ==
    UNION {{Key(i, v) : v \in {w \in 1..sm.slots[i].version : w % 2 = 1}} :
              i \in 1..Len(sm.slots)}

----------------------------------------------------------------------------
\* SimpleGpuMemory: private helpers.  A memory value is the record
\* [data, available_ranges, used_ranges, allocated_count, mutated].

RECURSIVE merge_available_ranges(_, _)
merge_available_ranges(avail, index) ==
    IF index + 1 <= Len(avail) /\ avail[index].end >= avail[index + 1].start
    THEN LET right  == avail[index + 1]
             left   == avail[index]
             merged == Range(Min2(left.start, right.start), Max2(left.end, right.end))
         IN  merge_available_ranges(
                 [RemoveAt(avail, index + 1) EXCEPT ![index] = merged], index)
    ELSE avail

make_range_available(avail, range) ==
    LET hits == {i \in 1..Len(avail) : avail[i].start <= range.end}
    IN  IF hits # {}
        THEN LET other_range_index == CHOOSE i \in hits : \A j \in hits : i <= j
             IN  merge_available_ranges(InsertAt(avail, other_range_index, range),
                                        other_range_index)
        ELSE Append(avail, range)

\* the inner loop of fix_sequence over used_ranges.values_mut()
ShiftUsed(sm, range) ==
    [sm EXCEPT !.slots =
        [i \in 1..Len(sm.slots) |->
            IF i \in Occupied(sm) /\ range.end <= sm.slots[i].range.start
            THEN [sm.slots[i] EXCEPT
                    !.range = Range(sm.slots[i].range.start - RangeLen(range),
                                    sm.slots[i].range.end - RangeLen(range))]
            ELSE sm.slots[i]]]

\* Vec::drain(range) panics when the range is not inside the vector
DrainOk(d, range) == range.start <= range.end /\ range.end <= Len(d)

Drain(d, range) == SubSeq(d, 1, range.start) \o SubSeq(d, range.end + 1, Len(d))

\* fix_sequence walks the free list from its last entry to its first; k is the
\* number of entries still to process.  The free list is drained in any case.
RECURSIVE FixFrom(_, _)
FixFrom(m, k) ==
    IF k = 0
    THEN [m |-> [m EXCEPT !.available_ranges = <<>>], ok |-> TRUE]
    ELSE LET range == m.available_ranges[k]
             used  == ShiftUsed(m.used_ranges, range)
         IN  IF DrainOk(m.data, range)
             THEN FixFrom([m EXCEPT !.used_ranges = used,
                                    !.data = Drain(m.data, range)], k - 1)
             ELSE [m  |-> [m EXCEPT !.used_ranges = used, !.available_ranges = <<>>],
                   ok |-> FALSE]

fix_sequence(m) == FixFrom(m, Len(m.available_ranges))

\* sorted_by_key is a stable sort of the (key, range) pairs in iteration order
SortKey(sm, i, descending) ==
    IF descending THEN 0 - RangeLen(sm.slots[i].range) ELSE RangeLen(sm.slots[i].range)

RECURSIVE StableInsert(_, _, _, _)
StableInsert(sorted, i, sm, descending) ==
    IF sorted = <<>> THEN <<i>>
    ELSE IF SortKey(sm, Head(sorted), descending) <= SortKey(sm, i, descending)
         THEN <<Head(sorted)>> \o StableInsert(Tail(sorted), i, sm, descending)
         ELSE <<i>> \o sorted

RECURSIVE SortedFrom(_, _, _)
SortedFrom(sm, i, descending) ==
    IF i = 0 THEN <<>>
    ELSE LET before == SortedFrom(sm, i - 1, descending)
         IN  IF i \in Occupied(sm) THEN StableInsert(before, i, sm, descending)
             ELSE before

sorted_ranges(sm, descending) == SortedFrom(sm, Len(sm.slots), descending)

\* the loop of sort: ranges is the clone taken before the loop, order the
\* sorted slot indices still to copy
RECURSIVE SortLoop(_, _, _, _, _)
SortLoop(m, ranges, order, new_data, used) ==
    IF order = <<>>
    THEN [m  |-> [m EXCEPT !.data = new_data, !.used_ranges = used,
                           !.available_ranges = <<>>],
          ok |-> TRUE]
    ELSE LET range == ranges.slots[Head(order)].range
         IN  IF range.start <= range.end /\ range.end <= Len(m.data)
             THEN LET start == Len(new_data)
                      grown == new_data \o SubSeq(m.data, range.start + 1, range.end)
                  IN  SortLoop(m, ranges, Tail(order), grown,
                               [used EXCEPT !.slots[Head(order)].range =
                                                Range(start, Len(grown))])
             ELSE [m |-> [m EXCEPT !.used_ranges = used], ok |-> FALSE]

sort(m, descending) ==
    SortLoop(m, m.used_ranges, sorted_ranges(m.used_ranges, descending),
             <<>>, m.used_ranges)

----------------------------------------------------------------------------
\* SimpleGpuMemory: impl GpuMemory

new == [data |-> <<>>, available_ranges |-> <<>>, used_ranges |-> SlotMapNew,
        allocated_count |-> 0, mutated |-> FALSE]

len(m) == m.allocated_count

size(m) == len(m) * ElemSize

\* allocate as it would be with the search of the free list from the front
allocate_first_fit(m, count) ==
    LET sz    == ElemSize * count
        avail == m.available_ranges
        fits  == {i \in 1..Len(avail) : RangeLen(avail[i]) >= sz}
        pick  ==
            IF fits # {}
            THEN LET range_index == CHOOSE i \in fits : \A j \in fits : i <= j
                     range       == avail[range_index]
                 IN  IF RangeLen(range) # sz
                     THEN [avail |-> [avail EXCEPT ![range_index].end = range.end - sz],
                           data  |-> m.data,
                           range |-> Range(range.end - sz, range.end)]
                     ELSE [avail |-> RemoveAt(avail, range_index),
                           data  |-> m.data,
                           range |-> range]
            ELSE [avail |-> avail,
                  data  |-> m.data \o Zeros(sz),
                  range |-> Range(Len(m.data), Len(m.data) + sz)]
        ins   == SlotMapInsert(m.used_ranges, pick.range)
    IN  [m   |-> [data |-> pick.data, available_ranges |-> pick.avail,
                  used_ranges |-> ins.sm,
                  allocated_count |-> m.allocated_count + count,
                  mutated |-> TRUE],
         key |-> ins.key]

\* allocate as it would be without the search of the free list
allocate_always_grows(m, count) ==
    LET sz  == ElemSize * count
        ins == SlotMapInsert(m.used_ranges, Range(Len(m.data), Len(m.data) + sz))
    IN  [m   |-> [data |-> m.data \o Zeros(sz),
                  available_ranges |-> m.available_ranges,
                  used_ranges |-> ins.sm,
                  allocated_count |-> m.allocated_count + count,
                  mutated |-> TRUE],
         key |-> ins.key]

allocate(m, count) ==
    LET sz    == ElemSize * count
        avail == m.available_ranges
        fits  == {i \in 1..Len(avail) : RangeLen(avail[i]) >= sz}
        pick  ==
            IF fits # {}
            THEN LET range_index == CHOOSE i \in fits : \A j \in fits : j <= i
                     range       == avail[range_index]
                 IN  IF RangeLen(range) # sz
                     THEN [avail |-> [avail EXCEPT ![range_index].end = range.end - sz],
                           data  |-> m.data,
                           range |-> Range(range.end - sz, range.end)]
                     ELSE [avail |-> RemoveAt(avail, range_index),
                           data  |-> m.data,
                           range |-> range]
            ELSE [avail |-> avail,
                  data  |-> m.data \o Zeros(sz),
                  range |-> Range(Len(m.data), Len(m.data) + sz)]
        ins   == SlotMapInsert(m.used_ranges, pick.range)
    IN  [m   |-> [data |-> pick.data, available_ranges |-> pick.avail,
                  used_ranges |-> ins.sm,
                  allocated_count |-> m.allocated_count + count,
                  mutated |-> TRUE],
         key |-> ins.key]

\* the slice &mut self.data[range.start..range.end] of get; taking it panics
\* when the key is not in the map or the range is not inside data
GetOk(m, key) ==
    /\ SlotMapContains(m.used_ranges, key)
    /\ SlotMapGet(m.used_ranges, key).start <= SlotMapGet(m.used_ranges, key).end
    /\ SlotMapGet(m.used_ranges, key).end <= Len(m.data)

get(m, key) ==
    SubSeq(m.data, SlotMapGet(m.used_ranges, key).start + 1,
           SlotMapGet(m.used_ranges, key).end)

len_of(m, key) == RangeLen(SlotMapGet(m.used_ranges, key)) \div ElemSize

\* free as it would be if it compacted the buffer right away
free_compacts(m, key) ==
    IF SlotMapContains(m.used_ranges, key)
    THEN LET range == SlotMapGet(m.used_ranges, key)
             freed == [m EXCEPT
                          !.mutated = TRUE,
                          !.used_ranges = SlotMapRemove(m.used_ranges, key),
                          !.allocated_count =
                              m.allocated_count - (RangeLen(range) \div ElemSize),
                          !.available_ranges = <<range>>]
         IN  [freed EXCEPT !.used_ranges = ShiftUsed(freed.used_ranges, range),
                           !.data = Drain(freed.data, range),
                           !.available_ranges = m.available_ranges]
    ELSE [m EXCEPT !.mutated = TRUE]

\* free as it would be with the decrement of allocated_count forgotten
free_keeps_count(m, key) ==
    IF SlotMapContains(m.used_ranges, key)
    THEN LET range == SlotMapGet(m.used_ranges, key)
         IN  [m EXCEPT !.mutated = TRUE,
                       !.used_ranges = SlotMapRemove(m.used_ranges, key),
                       !.available_ranges = make_range_available(m.available_ranges, range)]
    ELSE [m EXCEPT !.mutated = TRUE]

\* free as it would be if the slot were looked up without comparing versions
free_any_version(m, key) ==
    IF /\ key.idx \in 1..Len(m.used_ranges.slots)
       /\ m.used_ranges.slots[key.idx].version % 2 = 1
    THEN LET cur   == Key(key.idx, m.used_ranges.slots[key.idx].version)
             range == SlotMapGet(m.used_ranges, cur)
         IN  [m EXCEPT !.mutated = TRUE,
                       !.used_ranges = SlotMapRemove(m.used_ranges, cur),
                       !.allocated_count = m.allocated_count - (RangeLen(range) \div ElemSize),
                       !.available_ranges = make_range_available(m.available_ranges, range)]
    ELSE [m EXCEPT !.mutated = TRUE]

free(m, key) ==
    IF SlotMapContains(m.used_ranges, key)
    THEN LET range == SlotMapGet(m.used_ranges, key)
         IN  [m EXCEPT !.mutated = TRUE,
                       !.used_ranges = SlotMapRemove(m.used_ranges, key),
                       !.allocated_count = m.allocated_count - (RangeLen(range) \div ElemSize),
                       !.available_ranges = make_range_available(m.available_ranges, range)]
    ELSE [m EXCEPT !.mutated = TRUE]

\* resize as it would be with the decrement of allocated_count forgotten in a shrink
resize_keeps_count(m, key, n) ==
    LET sz    == n * ElemSize
        range == SlotMapGet(m.used_ranges, key)
    IN  IF RangeLen(range) < sz
        THEN allocate(free(m, key), n)
        ELSE IF RangeLen(range) = sz
        THEN [m |-> m, key |-> key]
        ELSE LET free_range == Range(range.start, range.end - sz)
             IN  [m   |-> [m EXCEPT
                              !.mutated = TRUE,
                              !.available_ranges =
                                  make_range_available(m.available_ranges, free_range),
                              !.used_ranges =
                                  SlotMapSet(m.used_ranges, key,
                                             Range(range.end - sz, range.end))],
                   key |-> key]

\* resize as it would be if a shrink kept the leading elements and freed the rest
resize_keeps_prefix(m, key, n) ==
    LET sz    == n * ElemSize
        range == SlotMapGet(m.used_ranges, key)
    IN  IF RangeLen(range) < sz
        THEN allocate(free(m, key), n)
        ELSE IF RangeLen(range) = sz
        THEN [m |-> m, key |-> key]
        ELSE LET free_range == Range(range.start + sz, range.end)
             IN  [m   |-> [m EXCEPT
                              !.mutated = TRUE,
                              !.allocated_count =
                                  m.allocated_count - (RangeLen(free_range) \div ElemSize),
                              !.available_ranges =
                                  make_range_available(m.available_ranges, free_range),
                              !.used_ranges =
                                  SlotMapSet(m.used_ranges, key,
                                             Range(range.start, range.start + sz))],
                   key |-> key]

\* resize of a key that is in the map; key is the value left in *index
\* resize as it would be if a growth rewrote the range stored under index
\* instead of replacing index by a newly inserted key
resize_in_place(m, key, n) ==
    LET sz    == n * ElemSize
        range == SlotMapGet(m.used_ranges, key)
        r     == allocate(free(m, key), n)
    IN  IF RangeLen(range) < sz
        THEN [m   |-> [r.m EXCEPT
                          !.used_ranges =
                              SlotMapSet(m.used_ranges, key,
                                         SlotMapGet(r.m.used_ranges, r.key))],
              key |-> key]
        ELSE IF RangeLen(range) = sz
        THEN [m |-> m, key |-> key]
        ELSE LET free_range == Range(range.start, range.end - sz)
             IN  [m   |-> [m EXCEPT
                              !.mutated = TRUE,
                              !.allocated_count =
                                  m.allocated_count - (RangeLen(free_range) \div ElemSize),
                              !.available_ranges =
                                  make_range_available(m.available_ranges, free_range),
                              !.used_ranges =
                                  SlotMapSet(m.used_ranges, key,
                                             Range(range.end - sz, range.end))],
                   key |-> key]

resize(m, key, n) ==
    LET sz    == n * ElemSize
        range == SlotMapGet(m.used_ranges, key)
    IN  IF RangeLen(range) < sz
        THEN allocate(free(m, key), n)
        ELSE IF RangeLen(range) = sz
        THEN [m |-> m, key |-> key]
        ELSE LET free_range == Range(range.start, range.end - sz)
             IN  [m   |-> [m EXCEPT
                              !.mutated = TRUE,
                              !.allocated_count =
                                  m.allocated_count - (RangeLen(free_range) \div ElemSize),
                              !.available_ranges =
                                  make_range_available(m.available_ranges, free_range),
                              !.used_ranges =
                                  SlotMapSet(m.used_ranges, key,
                                             Range(range.end - sz, range.end))],
                   key |-> key]

\* upload_or_resize (lib.rs): overwrite the buffer in place when it is large
\* enough, replace it otherwise
upload_or_resize(buf, d) ==
    IF Len(buf) >= Len(d)
    THEN d \o SubSeq(buf, Len(d) + 1, Len(buf))
    ELSE d

----------------------------------------------------------------------------
\* state of the program

Mem == [data |-> data, available_ranges |-> available_ranges,
        used_ranges |-> used_ranges, allocated_count |-> allocated_count,
        mutated |-> mutated]

SetMem(m) ==
    /\ data' = m.data
    /\ available_ranges' = m.available_ranges
    /\ used_ranges' = m.used_ranges
    /\ allocated_count' = m.allocated_count
    /\ mutated' = m.mutated

SetMemInit(m) ==
    /\ data = m.data
    /\ available_ranges = m.available_ranges
    /\ used_ranges = m.used_ranges
    /\ allocated_count = m.allocated_count
    /\ mutated = m.mutated

\* a call as the caller sees it: the operation, the AddressId it was given or
\* returned, its count argument, the element count the AddressId had before the
\* call (0 when it was not in the map), and whether the buffer was written
Call(op, key, arg, was, wrote) ==
    [op |-> op, key |-> key, arg |-> arg, was |-> was, wrote |-> wrote]

\* len_of as seen by a caller that must not panic: 0 for a key not in the map
Was(key) == IF SlotMapContains(used_ranges, key) THEN len_of(Mem, key) ELSE 0

\* one more call on a program that has not panicked
Tick ==
    /\ status = "ok"
    /\ steps < MaxSteps
    /\ steps' = steps + 1

Strategy == {"Truncate", "SortSizeDescending", "SortSizeAscending"}

\* no AutoDroppingAddressId: the index field of a call that takes none
NoOwner == [inner |-> NullKey, rc |-> 0, origin |-> NullKey, dup |-> FALSE]

\* no call on the decorator holds the write guard
Idle == [op |-> "idle", o |-> NoOwner, n |-> 0, strategy |-> "Truncate"]

Init ==
    /\ data = new.data
    /\ available_ranges = new.available_ranges
    /\ used_ranges = new.used_ranges
    /\ allocated_count = new.allocated_count
    /\ mutated = new.mutated
    /\ buffer = Zeros(ElemSize)
    /\ status = "ok"
    /\ last = Call("new", NullKey, 0, 0, FALSE)
    /\ steps = 0
    /\ owners = {}
    /\ parent_alive = TRUE
    /\ store_op = Idle
    /\ dropping = {}

----------------------------------------------------------------------------
\* calls on the memory: what each call does to the memory, the buffer, status
\* and last.  key is the AddressId passed by the caller.

allocate_call(count) ==
    /\ Tick
    /\ SetMem(allocate(Mem, count).m)
    /\ last' = Call("allocate", allocate(Mem, count).key, count, 0, FALSE)
    /\ UNCHANGED <<buffer, status>>

\* get(&key), then a store into element i of the returned slice; the value
\* stored is the number of the call, so every store writes a different value
get_call(key, i) ==
    /\ Tick
    /\ last' = Call("get", key, i, Was(key), FALSE)
    /\ IF GetOk(Mem, key)
       THEN /\ i < len_of(Mem, key)
            /\ LET at == SlotMapGet(used_ranges, key).start + i * ElemSize
               IN  data' = [b \in 1..Len(data) |->
                               IF b > at /\ b <= at + ElemSize
                               THEN Encode(steps + 1)[b - at] ELSE data[b]]
            /\ UNCHANGED status
       ELSE /\ i = 0
            /\ status' = "panicked"
            /\ UNCHANGED data
    /\ mutated' = TRUE
    /\ UNCHANGED <<available_ranges, used_ranges, allocated_count, buffer>>

\* get(&key) with nothing stored through the slice
get_read_call(key) ==
    /\ Tick
    /\ GetOk(Mem, key)
    /\ last' = Call("get", key, 0, Was(key), FALSE)
    /\ mutated' = TRUE
    /\ UNCHANGED <<data, available_ranges, used_ranges, allocated_count, buffer, status>>

len_of_call(key) ==
    /\ Tick
    /\ last' = Call("len_of", key, 0, Was(key), FALSE)
    /\ status' = IF SlotMapContains(used_ranges, key) THEN "ok" ELSE "panicked"
    /\ UNCHANGED <<memvars, buffer>>

\* last.key is the value resize leaves in *index
resize_call(key, n) ==
    /\ Tick
    /\ IF SlotMapContains(used_ranges, key)
       THEN /\ SetMem(resize(Mem, key, n).m)
            /\ last' = Call("resize", resize(Mem, key, n).key, n, Was(key), FALSE)
            /\ UNCHANGED status
       ELSE /\ last' = Call("resize", key, n, Was(key), FALSE)
            /\ status' = "panicked"
            /\ UNCHANGED memvars
    /\ UNCHANGED buffer

free_call(key) ==
    /\ Tick
    /\ SetMem(free(Mem, key))
    /\ last' = Call("free", key, 0, Was(key), FALSE)
    /\ UNCHANGED <<buffer, status>>

\* upload as it would be without the early return on an unchanged memory
upload_call_always ==
    /\ Tick
    /\ LET f == fix_sequence(Mem)
       IN  IF f.ok
           THEN /\ SetMem([f.m EXCEPT !.mutated = FALSE])
                /\ buffer' = upload_or_resize(buffer, f.m.data)
                /\ last' = Call("upload", NullKey, 0, 0, TRUE)
                /\ UNCHANGED status
           ELSE /\ SetMem(f.m)
                /\ last' = Call("upload", NullKey, 0, 0, FALSE)
                /\ status' = "panicked"
                /\ UNCHANGED buffer

upload_call ==
    /\ Tick
    /\ IF ~mutated
       THEN /\ last' = Call("upload", NullKey, 0, 0, FALSE)
            /\ UNCHANGED <<memvars, buffer, status>>
       ELSE LET f == fix_sequence(Mem)
            IN  IF f.ok
                THEN /\ SetMem([f.m EXCEPT !.mutated = FALSE])
                     /\ buffer' = upload_or_resize(buffer, f.m.data)
                     /\ last' = Call("upload", NullKey, 0, 0, TRUE)
                     /\ UNCHANGED status
                ELSE /\ SetMem(f.m)
                     /\ last' = Call("upload", NullKey, 0, 0, FALSE)
                     /\ status' = "panicked"
                     /\ UNCHANGED buffer

StrategyArg(strategy) ==
    IF strategy = "Truncate" THEN 0
    ELSE IF strategy = "SortSizeDescending" THEN 1 ELSE 2

optimize_call(strategy) ==
    /\ Tick
    /\ last' = Call("optimize", NullKey, StrategyArg(strategy), 0, FALSE)
    /\ LET r == IF strategy = "Truncate" THEN fix_sequence(Mem)
                ELSE sort(Mem, strategy = "SortSizeDescending")
       IN  /\ SetMem(r.m)
           /\ status' = IF r.ok THEN "ok" ELSE "panicked"
           /\ buffer' = IF strategy = "Truncate" /\ r.ok THEN r.m.data ELSE buffer

----------------------------------------------------------------------------
\* a caller that owns a SimpleGpuMemory and keeps every AddressId it was given

Allocate(count) == allocate_call(count) /\ UNCHANGED <<owners, parent_alive, store_op, dropping>>

Get(key, i) == get_call(key, i) /\ UNCHANGED <<owners, parent_alive, store_op, dropping>>

GetRead(key) == get_read_call(key) /\ UNCHANGED <<owners, parent_alive, store_op, dropping>>

LenOf(key) == len_of_call(key) /\ UNCHANGED <<owners, parent_alive, store_op, dropping>>

Resize(key, n) == resize_call(key, n) /\ UNCHANGED <<owners, parent_alive, store_op, dropping>>

Free(key) == free_call(key) /\ UNCHANGED <<owners, parent_alive, store_op, dropping>>

Upload == upload_call /\ UNCHANGED <<owners, parent_alive, store_op, dropping>>

Optimize(strategy) == optimize_call(strategy) /\ UNCHANGED <<owners, parent_alive, store_op, dropping>>

Next ==
    \/ \E count \in 0..MaxCount : Allocate(count)
    \/ \E key \in IssuedKeys(used_ranges), i \in 0..(MaxCount - 1) : Get(key, i)
    \/ \E key \in IssuedKeys(used_ranges) : GetRead(key)
    \/ \E key \in IssuedKeys(used_ranges) : LenOf(key)
    \/ \E key \in IssuedKeys(used_ranges), n \in 0..MaxCount : Resize(key, n)
    \/ \E key \in IssuedKeys(used_ranges) : Free(key)
    \/ Upload
    \/ \E strategy \in Strategy : Optimize(strategy)

Spec == Init /\ [][Next]_vars

----------------------------------------------------------------------------
\* AutoDropping<T, SimpleGpuMemory<T>>: the caller holds AutoDroppingAddressId
\* values.  An owner is [inner, rc, origin, dup]: inner is the AddressId, rc
\* names the Arc<()> it holds; origin (the AddressId allocate returned) and dup
\* (it was cloned, or is a clone) record its history and are read by no call.

Owner(inner, rc, origin, dup) ==
    [inner |-> inner, rc |-> rc, origin |-> origin, dup |-> dup]

\* Arc::new(()): a token no living owner holds
NewArc(os) ==
    CHOOSE n \in 1..(Cardinality(os) + 1) : \A p \in os : p.rc # n

\* Arc::strong_count(&self.refcount)
strong_count(os, o) == Cardinality({p \in os : p.rc = o.rc})

\* impl Clone for AutoDroppingAddressId
clone(os, o) == Owner(o.inner, NewArc(os), o.origin, TRUE)

\* drop as it would be if it compared the strong count with 0
drop_never_frees(m, os, o, alive) ==
    IF strong_count(os, o) = 0
    THEN IF alive THEN free(m, o.inner) ELSE m
    ELSE m

\* drop as it would be if it freed without upgrading the weak parent reference
drop_without_upgrade(m, os, o, alive) ==
    IF strong_count(os, o) = 1
    THEN free(m, o.inner)
    ELSE m

\* impl Drop for AutoDroppingAddressId: the memory after o is dropped
drop(m, os, o, alive) ==
    IF strong_count(os, o) = 1
    THEN IF alive THEN free(m, o.inner) ELSE m
    ELSE m

AutoAllocate(count) ==
    /\ parent_alive
    /\ Cardinality(owners) < MaxOwners
    /\ allocate_call(count)
    /\ owners' = owners \cup
           {Owner(allocate(Mem, count).key, NewArc(owners),
                  allocate(Mem, count).key, FALSE)}
    /\ UNCHANGED <<parent_alive, store_op, dropping>>

AutoGet(o, i) ==
    /\ parent_alive
    /\ get_call(o.inner, i)
    /\ UNCHANGED <<owners, parent_alive, store_op, dropping>>

AutoResize(o, n) ==
    /\ parent_alive
    /\ resize_call(o.inner, n)
    /\ owners' = (owners \ {o}) \cup {[o EXCEPT !.inner = last'.key]}
    /\ UNCHANGED <<parent_alive, store_op, dropping>>

\* free as it would be if index were forgotten instead of dropped
AutoFree_forgets(o) ==
    /\ parent_alive
    /\ Tick
    /\ last' = Call("free", o.inner, 0, Was(o.inner), FALSE)
    /\ owners' = owners \ {o}
    /\ UNCHANGED <<memvars, buffer, status, parent_alive, store_op, dropping>>

\* free(index) only logs a warning, then index goes out of scope
AutoFree(o) ==
    /\ parent_alive
    /\ Tick
    /\ SetMem(drop(Mem, owners, o, parent_alive))
    /\ last' = Call("free", o.inner, 0, Was(o.inner), FALSE)
    /\ owners' = owners \ {o}
    /\ UNCHANGED <<buffer, status, parent_alive, store_op, dropping>>

AutoUpload ==
    /\ parent_alive
    /\ upload_call
    /\ UNCHANGED <<owners, parent_alive, store_op, dropping>>

AutoOptimize(strategy) ==
    /\ parent_alive
    /\ optimize_call(strategy)
    /\ UNCHANGED <<owners, parent_alive, store_op, dropping>>

CloneId(o) ==
    /\ Tick
    /\ Cardinality(owners) < MaxOwners
    /\ owners' = (owners \ {o}) \cup {[o EXCEPT !.dup = TRUE], clone(owners, o)}
    /\ last' = Call("clone", o.inner, 0, Was(o.inner), FALSE)
    /\ UNCHANGED <<memvars, buffer, status, parent_alive, store_op, dropping>>

DropId(o) ==
    /\ Tick
    /\ SetMem(drop(Mem, owners, o, parent_alive))
    /\ last' = Call("drop", o.inner, 0, Was(o.inner), FALSE)
    /\ owners' = owners \ {o}
    /\ UNCHANGED <<buffer, status, parent_alive, store_op, dropping>>

\* the AutoDropping value itself goes out of scope
DropStore ==
    /\ parent_alive
    /\ Tick
    /\ parent_alive' = FALSE
    /\ last' = Call("drop_store", NullKey, 0, 0, FALSE)
    /\ UNCHANGED <<memvars, buffer, status, owners, store_op, dropping>>

NextAuto ==
    \/ \E count \in 0..MaxCount : AutoAllocate(count)
    \/ \E o \in owners, i \in 0..(MaxCount - 1) : AutoGet(o, i)
    \/ \E o \in owners, n \in 0..MaxCount : AutoResize(o, n)
    \/ \E o \in owners : AutoFree(o)
    \/ AutoUpload
    \/ \E strategy \in Strategy : AutoOptimize(strategy)
    \/ \E o \in owners : CloneId(o)
    \/ \E o \in owners : DropId(o)
    \/ DropStore

SpecAuto == Init /\ [][NextAuto]_vars

----------------------------------------------------------------------------
\* The caller of Spec, followed from its first allocation on: on a new memory
\* no other call has an AddressId to act on, and steps counts the calls made
\* after that allocation.

InitAllocated ==
    \E count \in 0..MaxCount :
        /\ SetMemInit(allocate(new, count).m)
        /\ buffer = Zeros(ElemSize)
        /\ status = "ok"
        /\ last = Call("allocate", allocate(new, count).key, count, 0, FALSE)
        /\ steps = 0
        /\ owners = {}
        /\ parent_alive = TRUE
        /\ store_op = Idle
        /\ dropping = {}

SpecAllocated == InitAllocated /\ [][Next]_vars

----------------------------------------------------------------------------
\* The decorator with its owners dropped on other threads.  The thread that
\* owns the AutoDropping value makes the calls; a call takes the write guard of
\* the RwLock, runs on the memory and releases the guard on return.  drop() of
\* an owner reads the strong count, upgrades parent, takes the write guard,
\* frees and releases.  A step is what a thread does between two points where
\* it can block.

\* the calls the owning thread can make
StoreCall(op, o, n, strategy) == [op |-> op, o |-> o, n |-> n, strategy |-> strategy]

StoreCalls ==
    {StoreCall("allocate", NoOwner, count, "Truncate") : count \in 0..MaxCount}
    \cup {StoreCall("get", o, i, "Truncate") : o \in owners, i \in 0..(MaxCount - 1)}
    \cup {StoreCall("resize", o, n, "Truncate") : o \in owners, n \in 0..MaxCount}
    \cup {StoreCall("upload", NoOwner, 0, "Truncate")}
    \cup {StoreCall("optimize", NoOwner, 0, strategy) : strategy \in Strategy}

\* the owners that hold an Arc<()>: the living ones and those inside drop()
ArcHolders == owners \cup {d.o : d \in dropping}

\* the threads that hold the write guard
Writers ==
    (IF store_op # Idle THEN {store_op} ELSE {}) \cup {d \in dropping : d.locked}

\* the inputs a caller can pass: an element index inside the slice it was
\* given, or any index when get panics before returning a slice
InSlice(c) ==
    c.op = "get" =>
        IF GetOk(Mem, c.o.inner) THEN c.n < len_of(Mem, c.o.inner) ELSE c.n = 0

CanCall(c) ==
    /\ c.op = "allocate" => Cardinality(owners) < MaxOwners
    /\ InSlice(c)

\* let mut inner = self.inner.write(): returns once nobody holds a guard
StoreLock(c) ==
    /\ status = "ok"
    /\ steps < MaxSteps
    /\ parent_alive
    /\ store_op = Idle
    /\ Writers = {}
    /\ CanCall(c)
    /\ store_op' = c
    /\ UNCHANGED <<memvars, buffer, status, last, steps, owners, parent_alive, dropping>>

\* the rest of the call: the inner call on the memory, then the guard is dropped
StoreRun ==
    /\ store_op # Idle
    /\ \/ /\ store_op.op = "allocate"
          /\ allocate_call(store_op.n)
          /\ owners' = owners \cup
                 {Owner(allocate(Mem, store_op.n).key, NewArc(ArcHolders),
                        allocate(Mem, store_op.n).key, FALSE)}
       \/ /\ store_op.op = "get"
          /\ get_call(store_op.o.inner, store_op.n)
          /\ UNCHANGED owners
       \/ /\ store_op.op = "resize"
          /\ resize_call(store_op.o.inner, store_op.n)
          /\ owners' = (owners \ {store_op.o}) \cup {[store_op.o EXCEPT !.inner = last'.key]}
       \/ /\ store_op.op = "upload"
          /\ upload_call
          /\ UNCHANGED owners
       \/ /\ store_op.op = "optimize"
          /\ optimize_call(store_op.strategy)
          /\ UNCHANGED owners
    /\ store_op' = Idle
    /\ UNCHANGED <<parent_alive, dropping>>

\* the bound on steps leaves room for the call that holds the guard to return
Room == store_op = Idle \/ steps + 1 < MaxSteps

\* clone() of an owner, on any thread
ConcClone(o) ==
    /\ Tick
    /\ Room
    /\ Cardinality(owners) < MaxOwners
    /\ owners' = (owners \ {o}) \cup {[o EXCEPT !.dup = TRUE], clone(ArcHolders, o)}
    /\ last' = Call("clone", o.inner, 0, Was(o.inner), FALSE)
    /\ UNCHANGED <<memvars, buffer, status, parent_alive, store_op, dropping>>

\* drop() up to parent.write(): an owner lent to a running call cannot be dropped
DropBegin(o) ==
    /\ Tick
    /\ Room
    /\ store_op.o # o
    /\ owners' = owners \ {o}
    /\ dropping' =
           IF strong_count(ArcHolders, o) = 1 /\ parent_alive
           THEN dropping \cup {[o |-> o, locked |-> FALSE]}
           ELSE dropping
    /\ last' = Call("drop", o.inner, 0, Was(o.inner), FALSE)
    /\ UNCHANGED <<memvars, buffer, status, parent_alive, store_op>>

\* parent.write() as it would be if it returned while a guard is held
DropLock_no_wait(d) ==
    /\ status = "ok"
    /\ ~d.locked
    /\ dropping' = (dropping \ {d}) \cup {[d EXCEPT !.locked = TRUE]}
    /\ UNCHANGED <<memvars, buffer, status, last, steps, owners, parent_alive, store_op>>

\* parent.write() returns once nobody holds a guard
DropLock(d) ==
    /\ status = "ok"
    /\ ~d.locked
    /\ Writers = {}
    /\ dropping' = (dropping \ {d}) \cup {[d EXCEPT !.locked = TRUE]}
    /\ UNCHANGED <<memvars, buffer, status, last, steps, owners, parent_alive, store_op>>

\* parent.free(self.inner.to_owned()), then the guard is dropped
DropRun(d) ==
    /\ status = "ok"
    /\ d.locked
    /\ SetMem(free(Mem, d.o.inner))
    /\ dropping' = dropping \ {d}
    /\ UNCHANGED <<buffer, status, last, steps, owners, parent_alive, store_op>>

\* the owning thread drops the AutoDropping value between two calls
ConcDropStore ==
    /\ store_op = Idle
    /\ DropStore

NextConc ==
    \/ \E c \in StoreCalls : StoreLock(c)
    \/ StoreRun
    \/ \E o \in owners : ConcClone(o)
    \/ \E o \in owners : DropBegin(o)
    \/ \E d \in dropping : DropLock(d)
    \/ \E d \in dropping : DropRun(d)
    \/ ConcDropStore

SpecConc == Init /\ [][NextConc]_vars

----------------------------------------------------------------------------
\* the memory in the next state of a step
MemNext == [data |-> data', available_ranges |-> available_ranges',
            used_ranges |-> used_ranges', allocated_count |-> allocated_count',
            mutated |-> mutated']

\* two ranges share a byte
Overlap(r1, r2) ==
    /\ r1.start < r1.end
    /\ r2.start < r2.end
    /\ r1.start < r2.end
    /\ r2.start < r1.end

RECURSIVE SumLenOf(_, _)
SumLenOf(m, keys) ==
    IF keys = {} THEN 0
    ELSE LET k == CHOOSE x \in keys : TRUE
         IN  len_of(m, k) + SumLenOf(m, keys \ {k})

RECURSIVE SumRangeLen(_, _)
SumRangeLen(m, keys) ==
    IF keys = {} THEN 0
    ELSE LET k == CHOOSE x \in keys : TRUE
         IN  RangeLen(SlotMapGet(m.used_ranges, k)) + SumRangeLen(m, keys \ {k})

\* C1: the byte ranges registered for two distinct live handles never share a
\* byte, so a store through one handle cannot change what the other reads.
C1_LiveRangesDisjoint ==
    status = "ok" =>
        \A k1 \in LiveKeys(used_ranges), k2 \in LiveKeys(used_ranges) :
            k1 # k2 => ~Overlap(SlotMapGet(used_ranges, k1), SlotMapGet(used_ranges, k2))

\* C2: size() is allocated_count * element size, and allocated_count is the sum
\* of len_of over the live handles (the used range lengths divided by the
\* element size).
C2_SizeInvariant ==
    /\ size(Mem) = allocated_count * ElemSize
    /\ allocated_count = SumLenOf(Mem, LiveKeys(used_ranges))
    /\ allocated_count * ElemSize = SumRangeLen(Mem, LiveKeys(used_ranges))

\* a state after a free and a shrinking or growing resize with two handles live
C2_Witness ==
    /\ status = "ok"
    /\ last.op = "free"
    /\ last.was > 0
    /\ Cardinality(LiveKeys(used_ranges)) >= 2
    /\ allocated_count >= 3


\* C3: an allocation with several owners is freed only when its last owner is
\* dropped: dropping one owner while another owner of the same allocation is
\* alive leaves the allocation in the map and size() as it was.
C3_FreedWithLastOwnerOnly ==
    [][\A o \in owners :
          (/\ DropId(o)
           /\ parent_alive
           /\ SlotMapContains(used_ranges, o.inner)
           /\ \E p \in owners \ {o} : p.origin = o.origin /\ p.inner = o.inner)
          => (/\ SlotMapContains(used_ranges', o.inner)
              /\ allocated_count' = allocated_count)]_vars

\* C4: dropping an owner that was never cloned, while the store exists, frees
\* its allocation within the drop: the AddressId leaves the map and
\* allocated_count falls by the len_of it had; with no owner left size() is 0.
C4_SoleOwnerDropFrees ==
    [][\A o \in owners :
          (DropId(o) /\ parent_alive /\ ~o.dup)
          => (/\ SlotMapContains(used_ranges, o.inner)
              /\ ~SlotMapContains(used_ranges', o.inner)
              /\ allocated_count' = allocated_count - len_of(Mem, o.inner)
              /\ (owners' = {} => size(MemNext) = 0))]_vars

\* allocate(count > 0) followed by the drop of the owner it returned
C4_Witness ==
    /\ steps = 2
    /\ last.op = "drop"
    /\ last.was > 0
    /\ parent_alive
    /\ owners = {}
    /\ size(Mem) = 0

\* C5: resize(h, n) of a live handle leaves len_of(h) = n for the handle the
\* caller holds afterwards, changes len() by n minus the old count, leaves the
\* len_of of every other live handle alone, and changes nothing when n is the
\* current count.
C5_ResizeSetsLength ==
    [][\A key \in LiveKeys(used_ranges), n \in 0..MaxCount :
          Resize(key, n)
          => (/\ status' = "ok"
              /\ SlotMapContains(used_ranges', last'.key)
              /\ len_of(MemNext, last'.key) = n
              /\ RangeLen(SlotMapGet(used_ranges', last'.key)) = n * ElemSize
              /\ allocated_count' = allocated_count + n - len_of(Mem, key)
              /\ \A k \in LiveKeys(used_ranges) \ {key} :
                    /\ SlotMapContains(used_ranges', k)
                    /\ len_of(MemNext, k) = len_of(Mem, k)
              /\ (n = len_of(Mem, key) => last'.key = key /\ UNCHANGED memvars))]_vars

\* a growing resize of a non-empty allocation next to another live allocation
C5_Witness ==
    /\ status = "ok"
    /\ last.op = "resize"
    /\ last.was > 0
    /\ last.arg > last.was
    /\ \E k \in LiveKeys(used_ranges) : k # last.key /\ len_of(Mem, k) > 0

\* C6: a shrinking resize(h, n) keeps the last n elements: what get(h) reads
\* afterwards is the trailing n elements of what it read before, and the
\* leading bytes [start, end - n * element size) lie in the free list.
C6_ShrinkKeepsSuffix ==
    [][\A key \in LiveKeys(used_ranges), n \in 0..MaxCount :
          (Resize(key, n) /\ n < len_of(Mem, key) /\ GetOk(Mem, key))
          => (/\ last'.key = key
              /\ GetOk(MemNext, key)
              /\ get(MemNext, key) =
                     SubSeq(get(Mem, key), Len(get(Mem, key)) - n * ElemSize + 1,
                            Len(get(Mem, key)))
              /\ \E i \in 1..Len(available_ranges') :
                    /\ available_ranges'[i].start <= SlotMapGet(used_ranges, key).start
                    /\ SlotMapGet(used_ranges, key).end - n * ElemSize
                           <= available_ranges'[i].end)]_vars

\* a shrink to n > 0 elements whose surviving elements hold a stored value
C6_Witness ==
    /\ status = "ok"
    /\ last.op = "resize"
    /\ last.arg > 0
    /\ last.arg < last.was
    /\ GetOk(Mem, last.key)
    /\ get(Mem, last.key) # Zeros(last.arg * ElemSize)

\* C7: a compaction (upload of a mutated memory, optimize(Truncate)) returns,
\* and every live handle that could be read before it reads the same elements
\* after it, from a range inside data.
C7_CompactionKeepsContent ==
    [][((Upload /\ mutated) \/ Optimize("Truncate"))
          => (/\ status' = "ok"
              /\ \A k \in LiveKeys(used_ranges) :
                    GetOk(Mem, k) =>
                        (GetOk(MemNext, k) /\ get(MemNext, k) = get(Mem, k)))]_vars

\* C8: a handle that is no longer in the map never comes back into it, whatever
\* is allocated into its slot, and get, len_of and resize called with it panic
\* without touching the memory.
C8_StaleHandleRejected ==
    [][\A k \in IssuedKeys(used_ranges) :
          ~SlotMapContains(used_ranges, k)
          => (/\ ~SlotMapContains(used_ranges', k)
              /\ (last'.op = "allocate" => last'.key # k)
              /\ ((\/ Get(k, 0)
                   \/ GetRead(k)
                   \/ LenOf(k)
                   \/ \E n \in 0..MaxCount : Resize(k, n))
                  => (/\ status' = "panicked"
                      /\ UNCHANGED <<data, available_ranges, used_ranges,
                                     allocated_count, buffer>>)))]_vars

\* a call with a freed handle whose slot holds a newer allocation has panicked
C8_Witness ==
    /\ status = "panicked"
    /\ last.op \in {"get", "len_of", "resize"}
    /\ last.key \in IssuedKeys(used_ranges)
    /\ used_ranges.slots[last.key.idx].version > last.key.version
    /\ used_ranges.slots[last.key.idx].version % 2 = 1

\* C9: free(h) leaves data, and the range registered for every other live
\* handle, as they were.
C9_FreeLeavesOthers ==
    [][\A key \in IssuedKeys(used_ranges) :
          Free(key)
          => (/\ data' = data
              /\ \A k \in LiveKeys(used_ranges) \ {key} :
                    /\ SlotMapContains(used_ranges', k)
                    /\ SlotMapGet(used_ranges', k) = SlotMapGet(used_ranges, k)
                    /\ (GetOk(Mem, k) =>
                           GetOk(MemNext, k) /\ get(MemNext, k) = get(Mem, k)))]_vars

\* a free of a non-empty allocation placed before a live one that holds a stored value
C9_Witness ==
    /\ status = "ok"
    /\ last.op = "free"
    /\ last.was > 0
    /\ \E k \in LiveKeys(used_ranges) :
          /\ GetOk(Mem, k)
          /\ SlotMapGet(used_ranges, k).start > 0
          /\ get(Mem, k) # Zeros(Len(get(Mem, k)))

\* C10: an upload of an unchanged memory changes nothing and writes nothing; an
\* upload of a mutated memory that returns has written the buffer and cleared
\* mutated, so the upload after it is skipped.
C10_UploadOnlyWhenMutated ==
    [][Upload
          => IF ~mutated
             THEN /\ ~last'.wrote
                  /\ UNCHANGED <<memvars, buffer, status>>
             ELSE status' = "ok"
                  => (/\ last'.wrote
                      /\ ~mutated'
                      /\ SubSeq(buffer', 1, Len(data')) = data')]_vars

\* allocate, upload, upload: the second upload was skipped
C10_Witness ==
    /\ steps = 3
    /\ status = "ok"
    /\ last.op = "upload"
    /\ ~last.wrote
    /\ ~mutated
    /\ Len(data) > 0
    /\ SubSeq(buffer, 1, Len(data)) = data


\* C11 (as claimed): free(index) through the decorator leaves the live
\* allocations, allocated_count, the free list and data of the backing store as
\* they were.
C11_ExplicitFreeDoesNothing ==
    [][\A o \in owners :
          AutoFree(o)
          => UNCHANGED <<data, available_ranges, used_ranges, allocated_count>>]_vars

\* C11 (amended): free(index) through the decorator consumes the owner; the
\* decorator calls no free itself, but index is dropped before the call returns
\* and that drop frees its allocation: an AddressId that was in the map has
\* left it and allocated_count has fallen by its len_of; data and the ranges of
\* the other live AddressIds are as they were.
C11_ExplicitFreeDropsOwner ==
    [][\A o \in owners :
          AutoFree(o)
          => (/\ owners' = owners \ {o}
              /\ status' = "ok"
              /\ data' = data
              /\ ~SlotMapContains(used_ranges', o.inner)
              /\ allocated_count' = allocated_count - Was(o.inner)
              /\ (~SlotMapContains(used_ranges, o.inner)
                     => UNCHANGED <<used_ranges, available_ranges>>)
              /\ \A k \in LiveKeys(used_ranges) \ {o.inner} :
                    /\ SlotMapContains(used_ranges', k)
                    /\ SlotMapGet(used_ranges', k) = SlotMapGet(used_ranges, k))]_vars

\* allocate(count > 0), then free of the owner it returned: nothing is allocated
C11_Witness ==
    /\ steps = 2
    /\ last.op = "free"
    /\ last.was > 0
    /\ parent_alive
    /\ owners = {}
    /\ size(Mem) = 0
    /\ available_ranges # <<>>


\* C12: free(index) with an AddressId that is not in the map (freed before, or
\* replaced) returns without failure and leaves the map of used ranges, the
\* free list, data and allocated_count as they were.
C12_StaleFreeIsNoOp ==
    [][\A key \in IssuedKeys(used_ranges) :
          (Free(key) /\ ~SlotMapContains(used_ranges, key))
          => (/\ status' = "ok"
              /\ UNCHANGED <<used_ranges, available_ranges, data,
                             allocated_count, buffer>>)]_vars

\* a second free of an AddressId whose slot has been taken by a later allocation
C12_Witness ==
    /\ status = "ok"
    /\ last.op = "free"
    /\ last.was = 0
    /\ ~SlotMapContains(used_ranges, last.key)
    /\ last.key.idx \in 1..Len(used_ranges.slots)
    /\ used_ranges.slots[last.key.idx].version > last.key.version
    /\ used_ranges.slots[last.key.idx].version % 2 = 1
    /\ allocated_count > 0


\* C13: dropping an owner after the AutoDropping value itself was dropped is a
\* no-op: the weak parent reference does not upgrade, free is not called on the
\* memory and nothing fails.
C13_DropAfterStoreIsNoOp ==
    [][\A o \in owners :
          (DropId(o) /\ ~parent_alive)
          => (/\ status' = "ok"
              /\ owners' = owners \ {o}
              /\ UNCHANGED <<memvars, buffer>>)]_vars

\* an owner of a still registered allocation was dropped after the store
C13_Witness ==
    /\ ~parent_alive
    /\ status = "ok"
    /\ last.op = "drop"
    /\ last.was > 0
    /\ SlotMapContains(used_ranges, last.key)
    /\ allocated_count = last.was


\* C14 (as claimed): after a growing resize the AddressId the caller held
\* before the call is still in the map and identifies the resized allocation.
C14_GrowKeepsHandle ==
    [][\A o \in owners, n \in 0..MaxCount :
          (/\ AutoResize(o, n)
           /\ SlotMapContains(used_ranges, o.inner)
           /\ n > len_of(Mem, o.inner))
          => (/\ SlotMapContains(used_ranges', o.inner)
              /\ len_of(MemNext, o.inner) = n)]_vars

\* C14 (amended): a growing resize frees the old AddressId and writes a newly
\* inserted one through the &mut index argument: the owner it was called with
\* identifies the resized allocation, while the AddressId held before the call,
\* and with it every other owner that still carries it, is no longer in the map.
C14_GrowReplacesHandle ==
    [][\A o \in owners, n \in 0..MaxCount :
          (/\ AutoResize(o, n)
           /\ SlotMapContains(used_ranges, o.inner)
           /\ n > len_of(Mem, o.inner))
          => (/\ status' = "ok"
              /\ last'.key # o.inner
              /\ ~SlotMapContains(used_ranges', o.inner)
              /\ SlotMapContains(used_ranges', last'.key)
              /\ len_of(MemNext, last'.key) = n
              /\ [o EXCEPT !.inner = last'.key] \in owners'
              /\ \A p \in owners \ {o} : p \in owners')]_vars

\* one of two owners of an allocation has grown it; the other is left with an
\* AddressId that is not in the map
C14_Witness ==
    /\ status = "ok"
    /\ last.op = "resize"
    /\ last.was > 0
    /\ last.arg > last.was
    /\ \E p \in owners : p.inner = last.key /\ SlotMapContains(used_ranges, p.inner)
    /\ \E p \in owners :
          /\ p.inner # last.key
          /\ p.inner.idx = last.key.idx
          /\ ~SlotMapContains(used_ranges, p.inner)


\* the states of the scenario a = allocate(1); b = allocate(1); free(a);
\* c = allocate(1) on a new memory, told apart by the call counter, the last
\* call and the slots of the map
C15_AfterFirst ==
    steps = 1 /\ last.op = "allocate" /\ last.arg = 1

C15_AfterSecond ==
    /\ steps = 2 /\ last.op = "allocate" /\ last.arg = 1
    /\ last.key = Key(2, 1)
    /\ SlotMapContains(used_ranges, Key(1, 1))
    /\ SlotMapGet(used_ranges, Key(1, 1)) = Range(0, 4)

C15_AfterFree ==
    /\ steps = 3 /\ last.op = "free" /\ last.key = Key(1, 1) /\ last.was = 1
    /\ Len(used_ranges.slots) = 2
    /\ SlotMapContains(used_ranges, Key(2, 1))
    /\ SlotMapGet(used_ranges, Key(2, 1)) = Range(4, 8)

C15_AfterThird ==
    /\ steps = 4 /\ last.op = "allocate" /\ last.arg = 1
    /\ last.key = Key(1, 3)
    /\ Len(used_ranges.slots) = 2
    /\ SlotMapContains(used_ranges, Key(2, 1))
    /\ SlotMapGet(used_ranges, Key(2, 1)) = Range(4, 8)

\* C15 (as claimed): size() is 0, then 4, then 8, is still 8 after the first
\* allocation is freed, with a free range of length 4, and the third
\* allocate(1) takes that range without growing data.
C15_ScenarioSizeStays ==
    /\ (steps = 0 => size(Mem) = 0)
    /\ (C15_AfterFirst => size(Mem) = 4)
    /\ (C15_AfterSecond => size(Mem) = 8)
    /\ (C15_AfterFree =>
           /\ size(Mem) = 8
           /\ \E i \in 1..Len(available_ranges) : RangeLen(available_ranges[i]) = 4)
    /\ (C15_AfterThird =>
           /\ Len(data) = 8
           /\ SlotMapGet(used_ranges, last.key) = Range(0, 4))

\* C15 (amended): size() is 0, then 4, then 8; after the first allocation is
\* freed size() is 4 while data keeps its 8 bytes and the free list is the one
\* range 0..4; the third allocate(1) takes that range, data keeps its 8 bytes,
\* the free list is empty and size() is 8 again.
C15_ScenarioSizeFalls ==
    /\ (steps = 0 => size(Mem) = 0)
    /\ (C15_AfterFirst => size(Mem) = 4)
    /\ (C15_AfterSecond => size(Mem) = 8 /\ Len(data) = 8)
    /\ (C15_AfterFree =>
           /\ size(Mem) = 4
           /\ Len(data) = 8
           /\ available_ranges = <<Range(0, 4)>>)
    /\ (C15_AfterThird =>
           /\ Len(data) = 8
           /\ SlotMapGet(used_ranges, last.key) = Range(0, 4)
           /\ available_ranges = <<>>
           /\ size(Mem) = 8)

\* the end of the scenario
C15_Witness ==
    /\ C15_AfterThird
    /\ status = "ok"
    /\ SlotMapContains(used_ranges, Key(1, 3))
    /\ allocated_count = 2


\* a thread is inside a call or inside drop()
C16_Busy == store_op # Idle \/ dropping # {}

\* the call that holds the guard can run and return: StoreRun is enabled
C16_CallCanReturn ==
    /\ store_op # Idle
    /\ status = "ok"
    /\ steps < MaxSteps
    /\ InSlice(store_op)

\* C16: calls on the decorator and the frees of owners dropped on other threads
\* serialize on the write guard: at most one thread holds it; the ranges, the
\* free list, allocated_count and mutated change only in the step of the thread
\* that holds it; whenever a thread is inside a call or a drop some thread can
\* take a step (no deadlock); a drop takes from allocated_count the length of
\* its allocation if that is still in the map and nothing otherwise, so no
\* allocation is counted out twice; and allocated_count is the sum of len_of
\* over the map in every state.
C16_Serialized ==
    /\ [](/\ Cardinality(Writers) <= 1
          /\ allocated_count = SumLenOf(Mem, LiveKeys(used_ranges))
          /\ size(Mem) = SumRangeLen(Mem, LiveKeys(used_ranges))
          /\ (status = "ok" /\ C16_Busy) =>
                \/ C16_CallCanReturn
                \/ ENABLED (\/ \E d \in dropping : DropLock(d)
                            \/ \E d \in dropping : DropRun(d)))
    /\ [][(<<available_ranges, used_ranges, allocated_count, mutated>>'
             # <<available_ranges, used_ranges, allocated_count, mutated>>)
          => (\/ /\ Writers = {store_op}
                 /\ store_op' = Idle
              \/ \E d \in dropping :
                    /\ Writers = {d}
                    /\ dropping' = dropping \ {d})]_vars
    /\ [][\A d \in dropping :
             DropRun(d)
             => (/\ allocated_count' = allocated_count - Was(d.o.inner)
                 /\ ~SlotMapContains(used_ranges', d.o.inner)
                 /\ LiveKeys(used_ranges') = LiveKeys(used_ranges) \ {d.o.inner})]_vars

\* two owners of one allocation were inside drop() at once: the drop of one has
\* freed the allocation, the other holds the guard and will find nothing to free
C16_Witness ==
    /\ status = "ok"
    /\ store_op = Idle
    /\ last.op = "drop"
    /\ last.was > 0
    /\ allocated_count = 0
    /\ \E d \in dropping :
          /\ dropping = {d}
          /\ d.locked
          /\ d.o.dup
          /\ ~SlotMapContains(used_ranges, d.o.inner)
          /\ d.o.inner \in IssuedKeys(used_ranges)


\* byte b of data lies in range r
C17_Covers(r, b) == r.start <= b /\ b < r.end

\* C17: the used ranges and the free ranges do not overlap one another, none
\* extends past data.len(), and every byte of data lies in one of them.
C17_RangesPartition ==
    status = "ok" =>
        LET live == {SlotMapGet(used_ranges, k) : k \in LiveKeys(used_ranges)}
            idx  == 1..Len(available_ranges)
        IN  /\ \A i \in idx :
                   /\ available_ranges[i].start <= available_ranges[i].end
                   /\ available_ranges[i].end <= Len(data)
            /\ \A r \in live : r.start <= r.end /\ r.end <= Len(data)
            /\ \A i \in idx : \A r \in live : ~Overlap(available_ranges[i], r)
            /\ \A i \in idx, j \in idx :
                   i # j => ~Overlap(available_ranges[i], available_ranges[j])
            /\ \A k1 \in LiveKeys(used_ranges), k2 \in LiveKeys(used_ranges) :
                   k1 # k2 => ~Overlap(SlotMapGet(used_ranges, k1),
                                       SlotMapGet(used_ranges, k2))
            /\ \A b \in 0..(Len(data) - 1) :
                   \/ \E r \in live : C17_Covers(r, b)
                   \/ \E i \in idx : C17_Covers(available_ranges[i], b)


\* C18: after a free or a resize the free list is in ascending order of start
\* and coalesced: each entry ends before the next one starts.
C18_FreeListSortedCoalesced ==
    (status = "ok" /\ last.op \in {"free", "resize"}) =>
        \A i \in 1..(Len(available_ranges) - 1) :
            available_ranges[i].end < available_ranges[i + 1].start


\* C19: a compaction (upload of a mutated memory, optimize(Truncate)) returns
\* with the free list empty and data.len() == size(); the live ranges then
\* cover every byte of data exactly once, in the order of their starts before
\* the compaction.
C19_CompactionTiles ==
    [][((Upload /\ mutated) \/ Optimize("Truncate"))
       => (/\ status' = "ok"
           /\ available_ranges' = <<>>
           /\ Len(data') = size(MemNext)
           /\ LiveKeys(used_ranges') = LiveKeys(used_ranges)
           /\ \A b \in 0..(Len(data') - 1) :
                 \E k \in LiveKeys(used_ranges') :
                    /\ C17_Covers(SlotMapGet(used_ranges', k), b)
                    /\ \A k2 \in LiveKeys(used_ranges') :
                          C17_Covers(SlotMapGet(used_ranges', k2), b) => k2 = k
           /\ \A k1 \in LiveKeys(used_ranges), k2 \in LiveKeys(used_ranges) :
                 SlotMapGet(used_ranges, k1).start < SlotMapGet(used_ranges, k2).start
                 => SlotMapGet(used_ranges', k1).start
                        <= SlotMapGet(used_ranges', k2).start)]_vars


\* C20: allocate(count) takes the last entry of the free list that is long
\* enough; an entry of exactly the size is removed and used whole, a longer one
\* keeps its place and its start and gives up its last size bytes; data grows,
\* by size zero bytes that become the allocation, only when no entry is long
\* enough.  In every case allocated_count grows by count, the AddressId
\* returned is new and in the map, and mutated is set.
C20_LastFitSplitFromTail ==
    [][\A count \in 0..MaxCount :
          Allocate(count)
          => LET sz   == count * ElemSize
                 n    == Len(available_ranges)
                 fits == {i \in 1..n : RangeLen(available_ranges[i]) >= sz}
                 got  == SlotMapGet(used_ranges', last'.key)
             IN  /\ status' = "ok"
                 /\ allocated_count' = allocated_count + count
                 /\ mutated'
                 /\ last'.key \notin IssuedKeys(used_ranges)
                 /\ SlotMapContains(used_ranges', last'.key)
                 /\ RangeLen(got) = sz
                 /\ \A k \in LiveKeys(used_ranges) :
                       /\ SlotMapContains(used_ranges', k)
                       /\ SlotMapGet(used_ranges', k) = SlotMapGet(used_ranges, k)
                 /\ IF fits = {}
                    THEN /\ Len(data') = Len(data) + sz
                         /\ \A b \in 1..Len(data) : data'[b] = data[b]
                         /\ \A b \in (Len(data) + 1)..Len(data') : data'[b] = 0
                         /\ got = Range(Len(data), Len(data) + sz)
                         /\ available_ranges' = available_ranges
                    ELSE \E j \in fits :
                            /\ \A i \in fits : i <= j
                            /\ data' = data
                            /\ got.end = available_ranges[j].end
                            /\ IF RangeLen(available_ranges[j]) = sz
                               THEN /\ Len(available_ranges') = n - 1
                                    /\ \A i \in 1..(n - 1) :
                                          available_ranges'[i] =
                                             available_ranges[IF i < j THEN i ELSE i + 1]
                               ELSE /\ Len(available_ranges') = n
                                    /\ \A i \in (1..n) \ {j} :
                                          available_ranges'[i] = available_ranges[i]
                                    /\ available_ranges'[j] =
                                          Range(available_ranges[j].start,
                                                available_ranges[j].end - sz)]_vars

\* an allocate(1) that had two free entries of four bytes to choose from and
\* took the last one of the list
C20_Witness ==
    /\ status = "ok"
    /\ last.op = "allocate"
    /\ last.arg = 1
    /\ available_ranges = <<Range(8, 12)>>
    /\ SlotMapContains(used_ranges, last.key)
    /\ SlotMapGet(used_ranges, last.key) = Range(0, 4)
    /\ Len(data) = 12


\* C21: optimize(SortSizeDescending) (SortSizeAscending) returns with the free
\* list empty and data.len() equal to the sum of the live range lengths; the
\* live ranges cover every byte of data exactly once, a longer (shorter) range
\* never starts after a shorter (longer) one, and every live AddressId keeps
\* its len_of and its elements.
C21_SortLayout ==
    [][\A strategy \in {"SortSizeDescending", "SortSizeAscending"} :
          Optimize(strategy)
          => (/\ status' = "ok"
              /\ available_ranges' = <<>>
              /\ LiveKeys(used_ranges') = LiveKeys(used_ranges)
              /\ Len(data') = SumRangeLen(MemNext, LiveKeys(used_ranges'))
              /\ \A b \in 0..(Len(data') - 1) :
                    \E k \in LiveKeys(used_ranges') :
                       /\ C17_Covers(SlotMapGet(used_ranges', k), b)
                       /\ \A k2 \in LiveKeys(used_ranges') :
                             C17_Covers(SlotMapGet(used_ranges', k2), b) => k2 = k
              /\ \A k \in LiveKeys(used_ranges) :
                    /\ len_of(MemNext, k) = len_of(Mem, k)
                    /\ GetOk(MemNext, k)
                    /\ GetOk(Mem, k) => get(MemNext, k) = get(Mem, k)
              /\ \A k1 \in LiveKeys(used_ranges'), k2 \in LiveKeys(used_ranges') :
                    SlotMapGet(used_ranges', k1).start < SlotMapGet(used_ranges', k2).start
                    => IF strategy = "SortSizeDescending"
                       THEN len_of(MemNext, k1) >= len_of(MemNext, k2)
                       ELSE len_of(MemNext, k1) <= len_of(MemNext, k2))]_vars


\* C22: mutated is cleared only by upload, and while it is false data and the
\* range of every AddressId are as the last upload left them: a call other
\* than upload that ends with mutated false found it false and changed neither
\* data nor the map of used ranges, and whenever mutated is false the buffer
\* holds the bytes of data.
C22_MutatedTracksChanges ==
    /\ [][(~mutated' /\ last'.op # "upload")
          => (/\ ~mutated
              /\ data' = data
              /\ used_ranges' = used_ranges)]_vars
    /\ []((~mutated /\ status = "ok")
          => (/\ Len(data) <= Len(buffer)
              /\ SubSeq(buffer, 1, Len(data)) = data))

====
